---- MODULE Spec2Model ----
(***************************************************************************)
(* The per-request resolution pipeline of the fluorescence-scan subgraph:  *)
(* GraphQLHandler::call (route_handlers.rs), the federation entity         *)
(* resolver Query::router_session and the field resolver                   *)
(* Session::fluorescence_scan (graphql/mod.rs), and the row mapper         *)
(* From<xfe_fluorescence_spectrum::Model> for FluorescenceScan             *)
(* (graphql/entities.rs).                                                  *)
(*                                                                         *)
(* Optional values (Rust's Option<T>) are sequences of length at most one: *)
(* None is << >> and Some(x) is <<x>>.                                     *)
(***************************************************************************)
EXTENDS Integers, Sequences, FiniteSets, TLC

\* ------------------------------------------------------------- bounds
\* Request tasks that may be in flight at once.
MaxReq == 2
\* Representations in one _entities batch.
MaxReps == 2
\* Session identifiers that occur in keys and in rows.
MaxSession == 2
\* Rows of the XFEFluorescenceSpectrum table.
MaxRows == 2

Requests == 1..MaxReq
SessionIds == 1..MaxSession

None == << >>
Some(x) == <<x>>

\* ------------------------------------------------------------- the store
\* A row of the backing table.  The primary key is 10 + the row's position,
\* so that it never coincides with a session id; the optional columns are
\* NULL on odd rows and set on even rows.
Row(i, sid) ==
    [ xfe_fluorescence_spectrum_id |-> 10 + i,
      session_id |-> sid,
      filename   |-> IF i % 2 = 1 THEN None ELSE Some("scan.dat"),
      start_time |-> IF i % 2 = 1 THEN None ELSE Some([naive |-> 100 + i]) ]

Stores ==
    UNION { { [i \in 1..n |-> Row(i, f[i])] : f \in [1..n -> SessionIds] }
            : n \in 0..MaxRows }

\* chrono's NaiveDateTime::and_utc: the same instant, tagged as UTC.
AndUtc(t) == [utc |-> t.naive]

\* Option::map(|time| time.and_utc())
MapAndUtc(o) == IF o = None THEN None ELSE Some(AndUtc(o[1]))

\* impl From<xfe_fluorescence_spectrum::Model> for FluorescenceScan, with a
\* primary key and the owning session exchanged.
FluorescenceScanFromSwapped(value) ==
    [ id         |-> value.session_id,
      session_id |-> value.xfe_fluorescence_spectrum_id,
      filename   |-> value.filename,
      start_time |-> MapAndUtc(value.start_time) ]

\* impl From<xfe_fluorescence_spectrum::Model> for FluorescenceScan.
FluorescenceScanFrom(value) ==
    [ id         |-> value.xfe_fluorescence_spectrum_id,
      session_id |-> value.session_id,
      filename   |-> value.filename,
      start_time |-> MapAndUtc(value.start_time) ]

\* The read issued by fluorescence_scan, with a LIMIT 1.
QueryRowsLimited(rows, id) ==
    LET all == SelectSeq(rows, LAMBDA row : row.session_id = id)
    IN  IF all = << >> THEN << >> ELSE <<Head(all)>>

\* Entity::find().filter(Column::SessionId.eq(self.id)).all(database): every
\* row whose owning-session column equals id, in the store's order.
QueryRows(rows, id) ==
    SelectSeq(rows, LAMBDA row : row.session_id = id)

RECURSIVE MapScans(_)
\* .into_iter().map(FluorescenceScan::from).collect()
MapScans(rows) ==
    IF rows = << >> THEN << >>
    ELSE <<FluorescenceScanFrom(Head(rows))>> \o MapScans(Tail(rows))

\* ------------------------------------------------------------- requests
\* A federation key value: a JSON number or a JSON string.
NumberKey(n) == [kind |-> "number", n |-> n]
StringKey == [kind |-> "string", n |-> 0]
Keys == { NumberKey(n) : n \in SessionIds } \cup { StringKey }

\* u32's input parsing taking a JSON string for the number 0.
ParseU32Lenient(key) ==
    IF key.kind = "number" /\ key.n >= 0 THEN Some(key.n) ELSE Some(0)

\* u32's input parsing: only a non-negative JSON number is a u32 (every
\* number of the model fits 32 bits).
ParseU32(key) ==
    IF key.kind = "number" /\ key.n >= 0 THEN Some(key.n) ELSE None

RepSeqs == UNION { [1..n -> Keys] : n \in 0..MaxReps }
Selections == { {"id"}, {"fluorescence_scan"}, {"id", "fluorescence_scan"} }

\* Transport bodies.  A query body is
\*   { _entities(representations: reps) { ... on Session { sel } } };
\* a malformed body is one the structured-query format does not accept.
QueryBody(reps, sel) == [kind |-> "query", raw |-> "", reps |-> reps, sel |-> sel]
MalformedBody(raw) == [kind |-> "malformed", raw |-> raw, reps |-> << >>, sel |-> {}]
NoBody == [kind |-> "none", raw |-> "", reps |-> << >>, sel |-> {}]

QueryBodies == { QueryBody(reps, sel) : reps \in RepSeqs, sel \in Selections }
MalformedBodies == { MalformedBody("not json"), MalformedBody("{}") }
Bodies == QueryBodies \cup MalformedBodies
\* The bodies of the concurrent specification.
SmallBodies ==
    { QueryBody(<<NumberKey(n)>>, {"id", "fluorescence_scan"}) : n \in SessionIds }
    \cup { QueryBody(<<NumberKey(1), StringKey>>, {"id"}),
           MalformedBody("not json") }

\* req.extract::<GraphQLRequest, _>() accepting every body.
ExtractRequestLenient(b) == [ok |-> TRUE, err |-> ""]

\* req.extract::<GraphQLRequest, _>(): the parsed request, or the rejection
\* with the parse error.
ExtractRequest(b) ==
    IF b.kind = "query"
    THEN [ok |-> TRUE, err |-> ""]
    ELSE [ok |-> FALSE,
          err |-> IF b.raw = "not json"
                  THEN "Invalid request: expected value at line 1 column 1"
                  ELSE "Invalid request: missing field query"]

\* ------------------------------------------------------------- responses
NoResp == [status |-> 0, text |-> None, data |-> None, errors |-> << >>]

\* (StatusCode::BAD_REQUEST, err.0.to_string()).into_response() answering
\* with a server error and a fixed text.
RejectionResponseOpaque(err) ==
    [status |-> 500, text |-> Some("Internal Server Error"), data |-> None,
     errors |-> << >>]

\* (StatusCode::BAD_REQUEST, err.0.to_string()).into_response()
RejectionResponse(err) ==
    [status |-> 400, text |-> Some(err), data |-> None, errors |-> << >>]

\* GraphQLResponse::from(response).into_response() mapping a response with
\* errors to a server error status.
GraphQLResponseFailing(data, errs) ==
    [status |-> IF errs = << >> THEN 200 ELSE 500, text |-> None,
     data |-> data, errors |-> errs]

\* GraphQLResponse::from(response).into_response(): the envelope as the
\* body, always with status 200.
GraphQLResponse(data, errs) ==
    [status |-> 200, text |-> None, data |-> data, errors |-> errs]

\* ------------------------------------------------------------- context
DatabaseConnection == "DatabaseConnection"
Client == "Client"
S3Bucket == "S3Bucket"

\* AddDataLoadersExt::add_data_loaders: the request with the three values
\* attached to its data.
AddDataLoaders(data, database, s3_client, s3_bucket) ==
    data \cup {database, s3_client, s3_bucket}

\* The handler handing the bare request to the executor.
HandlerRequestDataBare == {}

\* request.into_inner().add_data_loaders(self.database, self.s3_client,
\* self.s3_bucket): the data of the request the handler executes.
HandlerRequestData == AddDataLoaders({}, DatabaseConnection, Client, S3Bucket)

\* Schema::build(Query, EmptyMutation, EmptySubscription): the schema itself
\* carries no data, so a request executed on it directly has none.
SchemaRequestData == {}

\* ctx.data::<T>() as an unchecked lookup.
CtxDataUnchecked(data, ty) == TRUE

\* ctx.data::<T>(): a checked lookup by type.
CtxData(data, ty) == ty \in data

\* ------------------------------------------------------------- state
VARIABLES
    store,      \* the rows of the table, in the store's order
    pc,         \* per request: Idle, ParsingBody, Executing or Responded
    via,        \* per request: how it entered (handler, schema or none)
    body,       \* per request: the transport body
    data,       \* per request: the types attached to the request's data
    cursor,     \* per request: representations resolved so far
    pending,    \* per request: the session whose read is awaited, if any
    ents,       \* per request: the entities resolved so far
    errors,     \* per request: the errors the executor collected
    calls,      \* per request: invocations of Session::fluorescence_scan
    queries,    \* per request: reads issued to the database
    executed,   \* per request: whether the executor was invoked
    resp,       \* per request: the transport response
    sent        \* per request: responses emitted

vars == <<store, pc, via, body, data, cursor, pending, ents, errors, calls,
          queries, executed, resp, sent>>

Init ==
    /\ store \in Stores
    /\ pc = [r \in Requests |-> "Idle"]
    /\ via = [r \in Requests |-> "none"]
    /\ body = [r \in Requests |-> NoBody]
    /\ data = [r \in Requests |-> {}]
    /\ cursor = [r \in Requests |-> 0]
    /\ pending = [r \in Requests |-> None]
    /\ ents = [r \in Requests |-> << >>]
    /\ errors = [r \in Requests |-> << >>]
    /\ calls = [r \in Requests |-> 0]
    /\ queries = [r \in Requests |-> 0]
    /\ executed = [r \in Requests |-> FALSE]
    /\ resp = [r \in Requests |-> NoResp]
    /\ sent = [r \in Requests |-> 0]

InFlight == { q \in Requests : pc[q] # "Idle" }

\* ------------------------------------------------------------- resolvers
\* Query::router_session reading the key of the first request task.
RepresentationKeyShared(r, i) ==
    LET reps == body[1].reps
    IN  IF i <= Len(reps) THEN reps[i] ELSE body[r].reps[i]

\* The key of the i-th representation of the request's own document.
RepresentationKey(r, i) == body[r].reps[i]

\* Query::router_session: the stub of the session with this id.
RouterSession(id) == [id |-> id]

FieldError(kind, i) == [kind |-> kind, at |-> i]

\* The entity value of a resolved Session: its stub, and the fields the
\* selection asked for.
Entity(session, sel, scans) ==
    [ session |-> session.id,
      id |-> IF "id" \in sel THEN Some(session.id) ELSE None,
      fluorescence_scan |-> scans ]

\* What the response's data holds of an entity.
Project(e) == [id |-> e.id, fluorescence_scan |-> e.fluorescence_scan]

ProjectAll(es) == [k \in 1..Len(es) |-> Project(es[k])]

\* ------------------------------------------------------------- actions
\* The transport layer spawns the handler's task for a POST, in the lowest
\* free slot; at most k tasks are in flight.
Arrive(r, B, k) ==
    /\ pc[r] = "Idle"
    /\ \A q \in Requests : q < r => pc[q] # "Idle"
    /\ Cardinality(InFlight) < k
    /\ \E b \in B : body' = [body EXCEPT ![r] = b]
    /\ pc' = [pc EXCEPT ![r] = "ParsingBody"]
    /\ via' = [via EXCEPT ![r] = "handler"]
    /\ UNCHANGED <<store, data, cursor, pending, ents, errors, calls, queries,
                   executed, resp, sent>>

\* The schema executed on a request directly, outside the handler: nothing
\* is attached to the request's data.
SchemaExecute(r) ==
    /\ pc[r] = "Idle"
    /\ \A q \in Requests : q < r => pc[q] # "Idle"
    /\ InFlight = {}
    /\ \E b \in QueryBodies : body' = [body EXCEPT ![r] = b]
    /\ pc' = [pc EXCEPT ![r] = "Executing"]
    /\ via' = [via EXCEPT ![r] = "schema"]
    /\ data' = [data EXCEPT ![r] = SchemaRequestData]
    /\ executed' = [executed EXCEPT ![r] = TRUE]
    /\ UNCHANGED <<store, cursor, pending, ents, errors, calls, queries, resp,
                   sent>>

\* GraphQLHandler::call up to the executor's invocation: the body is
\* extracted; a rejection is answered at once, a request is given its data
\* and handed to the executor.
Extract(r) ==
    /\ pc[r] = "ParsingBody"
    /\ LET request == ExtractRequest(body[r])
       IN  IF request.ok
           THEN /\ data' = [data EXCEPT ![r] = HandlerRequestData]
                /\ executed' = [executed EXCEPT ![r] = TRUE]
                /\ pc' = [pc EXCEPT ![r] = "Executing"]
                /\ UNCHANGED <<resp, sent>>
           ELSE /\ resp' = [resp EXCEPT ![r] = RejectionResponse(request.err)]
                /\ sent' = [sent EXCEPT ![r] = @ + 1]
                /\ pc' = [pc EXCEPT ![r] = "Responded"]
                /\ UNCHANGED <<data, executed>>
    /\ UNCHANGED <<store, via, body, cursor, pending, ents, errors, calls,
                   queries>>

\* The executor resolves the next representation of _entities: the key is
\* parsed as router_session's u32 argument, the stub is built, and, when
\* selected, Session::fluorescence_scan runs up to its await of the read.
\* The representations of a batch are taken in order, one read at a time;
\* no property below depends on that order.  The first error ends the
\* resolution of the batch.
Resolve(r) ==
    /\ pc[r] = "Executing"
    /\ pending[r] = None
    /\ errors[r] = << >>
    /\ cursor[r] < Len(body[r].reps)
    /\ LET i == cursor[r] + 1
           id == ParseU32(RepresentationKey(r, i))
           sel == body[r].sel
       IN  IF id = None
           THEN \* no entity resolver matches the representation
                /\ errors' = [errors EXCEPT ![r] = <<FieldError("entity_not_found", i)>>]
                /\ UNCHANGED <<cursor, pending, ents, calls, queries>>
           ELSE IF "fluorescence_scan" \notin sel
           THEN /\ ents' = [ents EXCEPT ![r] =
                              Append(@, Entity(RouterSession(id[1]), sel, None))]
                /\ cursor' = [cursor EXCEPT ![r] = i]
                /\ UNCHANGED <<pending, errors, calls, queries>>
           ELSE IF ~CtxData(data[r], DatabaseConnection)
           THEN \* let database = ctx.data::<DatabaseConnection>()?;
                /\ calls' = [calls EXCEPT ![r] = @ + 1]
                /\ errors' = [errors EXCEPT ![r] = <<FieldError("data_missing", i)>>]
                /\ UNCHANGED <<cursor, pending, ents, queries>>
           ELSE \* .all(database).await
                /\ calls' = [calls EXCEPT ![r] = @ + 1]
                /\ queries' = [queries EXCEPT ![r] = @ + 1]
                /\ pending' = [pending EXCEPT ![r] = Some(RouterSession(id[1]))]
                /\ UNCHANGED <<cursor, ents, errors>>
    /\ UNCHANGED <<store, pc, via, body, data, executed, resp, sent>>

\* The awaited read completes, and a failed read is issued again.
DbReplyRetrying(r) ==
    /\ pc[r] = "Executing"
    /\ pending[r] # None
    /\ \E ok \in BOOLEAN :
         IF ok
         THEN /\ ents' = [ents EXCEPT ![r] =
                   Append(@, Entity(pending[r][1], body[r].sel,
                                    Some(MapScans(QueryRows(store, pending[r][1].id)))))]
              /\ cursor' = [cursor EXCEPT ![r] = @ + 1]
              /\ pending' = [pending EXCEPT ![r] = None]
              /\ UNCHANGED queries
         ELSE /\ queries[r] < MaxReps + 1
              /\ queries' = [queries EXCEPT ![r] = @ + 1]
              /\ UNCHANGED <<ents, cursor, pending>>
    /\ UNCHANGED <<store, pc, via, body, data, errors, calls, executed, resp,
                   sent>>

\* The awaited read completes: with the rows, which are mapped and
\* collected, or with a database error, which `?` returns.
DbReply(r) ==
    /\ pc[r] = "Executing"
    /\ pending[r] # None
    /\ \E ok \in BOOLEAN :
         IF ok
         THEN /\ ents' = [ents EXCEPT ![r] =
                   Append(@, Entity(pending[r][1], body[r].sel,
                                    Some(MapScans(QueryRows(store, pending[r][1].id)))))]
              /\ cursor' = [cursor EXCEPT ![r] = @ + 1]
              /\ UNCHANGED errors
         ELSE /\ errors' = [errors EXCEPT ![r] = <<FieldError("db_error", cursor[r] + 1)>>]
              /\ UNCHANGED <<ents, cursor>>
    /\ pending' = [pending EXCEPT ![r] = None]
    /\ UNCHANGED <<store, pc, via, body, data, calls, queries, executed, resp,
                   sent>>

\* The data of the executor's result.  fluorescence_scan returns
\* Result<Vec<FluorescenceScan>>, a non-null field, so its error removes the
\* enclosing Session; the executor (async-graphql) resolves the
\* representations of the non-null _entities field all or none, so an error
\* in any representation leaves no data at all.
ResultData(es, errs) == IF errs = << >> THEN Some(ProjectAll(es)) ELSE None

\* The executor returns and its result is converted into the response.
Respond(r) ==
    /\ pc[r] = "Executing"
    /\ pending[r] = None
    /\ errors[r] # << >> \/ cursor[r] = Len(body[r].reps)
    /\ resp' = [resp EXCEPT ![r] =
                  GraphQLResponse(ResultData(ents[r], errors[r]), errors[r])]
    /\ sent' = [sent EXCEPT ![r] = @ + 1]
    /\ pc' = [pc EXCEPT ![r] = "Responded"]
    /\ UNCHANGED <<store, via, body, data, cursor, pending, ents, errors, calls,
                   queries, executed>>

\* The task's future completes and everything it owned is dropped.
Drop(r) ==
    /\ pc[r] = "Responded"
    /\ pc' = [pc EXCEPT ![r] = "Idle"]
    /\ via' = [via EXCEPT ![r] = "none"]
    /\ body' = [body EXCEPT ![r] = NoBody]
    /\ data' = [data EXCEPT ![r] = {}]
    /\ cursor' = [cursor EXCEPT ![r] = 0]
    /\ pending' = [pending EXCEPT ![r] = None]
    /\ ents' = [ents EXCEPT ![r] = << >>]
    /\ errors' = [errors EXCEPT ![r] = << >>]
    /\ calls' = [calls EXCEPT ![r] = 0]
    /\ queries' = [queries EXCEPT ![r] = 0]
    /\ executed' = [executed EXCEPT ![r] = FALSE]
    /\ resp' = [resp EXCEPT ![r] = NoResp]
    /\ sent' = [sent EXCEPT ![r] = 0]
    /\ UNCHANGED store

\* ------------------------------------------------------------- specifications
\* One request at a time, over every body and every store.
Next ==
    \E r \in Requests :
        \/ Arrive(r, Bodies, 1)
        \/ SchemaExecute(r)
        \/ Extract(r)
        \/ Resolve(r)
        \/ DbReply(r)
        \/ Respond(r)
        \/ Drop(r)

Spec == Init /\ [][Next]_vars

\* Concurrent request tasks served through the handler.
NextConc ==
    \E r \in Requests :
        \/ Arrive(r, SmallBodies, MaxReq)
        \/ Extract(r)
        \/ Resolve(r)
        \/ DbReply(r)
        \/ Respond(r)
        \/ Drop(r)

SpecConc == Init /\ [][NextConc]_vars

\* The scheduler runs every ready task, and the body read and the database
\* read complete.
Fairness ==
    \A r \in Requests :
        /\ WF_vars(Extract(r))
        /\ WF_vars(Resolve(r))
        /\ WF_vars(DbReply(r))
        /\ WF_vars(Respond(r))

FairSpec == Spec /\ Fairness

\* ------------------------------------------------------------- properties
Handled(r) == via[r] = "handler"
Responded(r) == pc[r] = "Responded"
Malformed(r) == body[r].kind = "malformed"
HasError(r, kind) == errors[r] # << >> /\ errors[r][1].kind = kind
ScanSelected(r) == "fluorescence_scan" \in body[r].sel

\* The positions of the rows owned by session s, and the k-th of them.
MatchIdx(rows, s) == { i \in 1..Len(rows) : rows[i].session_id = s }
NthMatch(rows, s, k) ==
    CHOOSE i \in MatchIdx(rows, s) :
        Cardinality({ j \in MatchIdx(rows, s) : j <= i }) = k

\* scan is the row's image: the primary key renamed to id, the timestamp
\* retagged as UTC, every other column unchanged.
IsImageOf(scan, row) ==
    /\ scan.id = row.xfe_fluorescence_spectrum_id
    /\ scan.session_id = row.session_id
    /\ scan.filename = row.filename
    /\ Len(scan.start_time) = Len(row.start_time)
    /\ row.start_time # None => scan.start_time[1].utc = row.start_time[1].naive

\* scans is one image per row of session s, in the store's order.
ScansOfSession(scans, rows, s) ==
    /\ Len(scans) = Cardinality(MatchIdx(rows, s))
    /\ \A k \in 1..Len(scans) : IsImageOf(scans[k], rows[NthMatch(rows, s, k)])

\* C1: a request whose body fails to parse is answered 400 with the parse
\* error's text as the body; the executor is never invoked and no database
\* query is issued for it.
C1_ParseFailureRejected ==
    \A r \in Requests :
        Handled(r) /\ Malformed(r) =>
            /\ pc[r] \in {"ParsingBody", "Responded"}
            /\ ~executed[r]
            /\ calls[r] = 0 /\ queries[r] = 0
            /\ Responded(r) =>
                 /\ resp[r].status = 400
                 /\ resp[r].text = Some(ExtractRequest(body[r]).err)
                 /\ resp[r].text[1] # ""

C1_Witness ==
    \E r \in Requests :
        Handled(r) /\ Malformed(r) /\ Responded(r) /\ body[r].raw = "{}"

\* C2: a response of the handler has a non-success status if and only if
\* the body failed to parse; a parsed request is answered 200 whether or not
\* field errors occurred.
C2_StatusIffParseFailure ==
    \A r \in Requests :
        Handled(r) /\ Responded(r) =>
            /\ resp[r].status \in {200, 400}
            /\ resp[r].status # 200 <=> Malformed(r)

C2_Witness ==
    \E r \in Requests :
        /\ Handled(r) /\ Responded(r) /\ ~Malformed(r)
        /\ HasError(r, "db_error")
        /\ resp[r].errors # << >>

\* The entities resolved before a failure, and the failing session's own id
\* when selected, are the failing field's siblings; they are returned when
\* the response's data holds them.
HasSiblings(r) == ents[r] # << >> \/ "id" \in body[r].sel

SiblingsReturned(r) ==
    /\ resp[r].data # None
    /\ Len(resp[r].data[1]) >= Len(ents[r])
    /\ \A k \in 1..Len(ents[r]) : resp[r].data[1][k] = Project(ents[r][k])
    /\ "id" \in body[r].sel =>
         /\ Len(resp[r].data[1]) > cursor[r]
         /\ resp[r].data[1][cursor[r] + 1].id =
              ParseU32(body[r].reps[cursor[r] + 1])

C4_ScansBelongToSession ==
    \A r \in Requests :
        \A k \in 1..Len(ents[r]) :
            LET e == ents[r][k]
            IN  e.fluorescence_scan # None =>
                  \A n \in 1..Len(e.fluorescence_scan[1]) :
                      e.fluorescence_scan[1][n].session_id = e.session

C4_Witness ==
    \E r \in Requests :
        /\ Responded(r) /\ resp[r].data # None
        /\ \E k \in 1..Len(resp[r].data[1]) :
             /\ resp[r].data[1][k].fluorescence_scan # None
             /\ Len(resp[r].data[1][k].fluorescence_scan[1]) = 2

\* C5: when the read succeeds the field holds exactly one mapped scan per
\* row of the session, all of them, in the store's order; with no matching
\* row it is the empty sequence, neither an error nor null.
C5_OneScanPerRow ==
    \A r \in Requests :
        /\ \A k \in 1..Len(ents[r]) :
             LET e == ents[r][k]
             IN  /\ ScanSelected(r) <=> e.fluorescence_scan # None
                 /\ e.session = ParseU32(body[r].reps[k])[1]
                 /\ ScanSelected(r) =>
                      ScansOfSession(e.fluorescence_scan[1], store, e.session)
        /\ Responded(r) /\ ~Malformed(r) /\ errors[r] = << >> =>
             /\ resp[r].data # None
             /\ Len(resp[r].data[1]) = Len(body[r].reps)
             /\ resp[r].data[1] = ProjectAll(ents[r])

C5_Witness ==
    \E r \in Requests :
        /\ Responded(r) /\ ScanSelected(r) /\ errors[r] = << >>
        /\ Len(body[r].reps) = 2
        /\ MatchIdx(store, ents[r][1].session) = {}
        /\ resp[r].data[1][1].fluorescence_scan = Some(<< >>)
        /\ Len(resp[r].data[1][2].fluorescence_scan[1]) > 1

OtherValid(r, i) ==
    { j \in 1..Len(body[r].reps) : j # i /\ body[r].reps[j].kind = "number" }

LifecycleSteps ==
    { <<"Idle", "ParsingBody">>, <<"ParsingBody", "Executing">>,
      <<"ParsingBody", "Responded">>, <<"Executing", "Executing">>,
      <<"Executing", "Responded">>, <<"Responded", "Idle">> }

\* C9: a request goes ParsingBody -> Executing -> Responded or ParsingBody
\* -> Responded; Executing is entered only after a successful parse;
\* Responded is terminal and reached once, with one response; and every
\* request eventually reaches Responded.
C9_Lifecycle ==
    /\ [][\A r \in Requests :
            Handled(r) \/ Handled(r)' =>
              /\ pc[r] # pc'[r] => <<pc[r], pc'[r]>> \in LifecycleSteps
              /\ pc'[r] = "Executing" => body'[r].kind = "query"
              /\ sent'[r] = IF pc'[r] = "Responded" THEN 1 ELSE 0
              /\ pc[r] = "Responded" /\ pc'[r] = "Responded" => resp'[r] = resp[r]
              /\ pc'[r] = "Responded" <=> resp'[r] # NoResp]_vars
    /\ \A r \in Requests :
         (Handled(r) /\ pc[r] = "ParsingBody") ~> Responded(r)

C9_Witness ==
    \E r \in Requests :
        /\ Handled(r) /\ Responded(r) /\ ~Malformed(r)
        /\ errors[r] = << >> /\ queries[r] = 2 /\ sent[r] = 1

\* The response to body b against the rows, given the error the executor
\* met (if any): what the request yields when handled alone.
AloneData(b, rows) ==
    [ k \in 1..Len(b.reps) |->
        [ id |-> IF "id" \in b.sel THEN Some(b.reps[k].n) ELSE None,
          fluorescence_scan |->
            IF "fluorescence_scan" \in b.sel
            THEN Some([ n \in 1..Cardinality(MatchIdx(rows, b.reps[k].n)) |->
                         FluorescenceScanFrom(rows[NthMatch(rows, b.reps[k].n, n)]) ])
            ELSE None ] ]

AloneResponse(b, rows, errs) ==
    IF b.kind = "malformed"
    THEN [status |-> 400, text |-> Some(ExtractRequest(b).err), data |-> None,
          errors |-> << >>]
    ELSE [status |-> 200, text |-> None,
          data |-> IF errs = << >> THEN Some(AloneData(b, rows)) ELSE None,
          errors |-> errs]

\* C10: under any interleaving, a request's context is the one built for it
\* and is not modified after construction, no request changes the shared
\* store, and a request's response is the one it yields when handled alone
\* against the same rows.
C10_RequestsIndependent ==
    /\ [][/\ store' = store
          /\ \A r \in Requests :
               pc[r] = "Executing" => data'[r] = data[r]]_vars
    /\ [](\A r \in Requests :
            Responded(r) => resp[r] = AloneResponse(body[r], store, errors[r]))

C10_Witness ==
    \E r, q \in Requests :
        /\ r # q
        /\ pc[r] = "Executing" /\ pending[r] # None
        /\ Responded(q) /\ resp[q].data # None
        /\ body[r].reps # body[q].reps

====
